---- MODULE Spec2Model ----
(***************************************************************************)
(* Model of the Knowledge Worker RAG application (src/knowledge_worker.py). *)
(*                                                                         *)
(* and of its scaffold generator (src/setup_knowledge_base.py).             *)
(*                                                                         *)
(* State: the knowledge-base directory tree, the persisted Chroma          *)
(* directory "vector_db" with its collection, the fields of the one        *)
(* KnowledgeWorker instance of the running process (vectorstore,           *)
(* conversation_chain with its ConversationBufferMemory), the result the   *)
(* last call handed to its caller, the position of main() and the web      *)
(* requests in flight in the Gradio chat handler.                          *)
(*                                                                         *)
(* Library calls are modelled by what they do to that state:               *)
(*  - glob.glob(root/"*") lists every non-hidden entry of the root, plain  *)
(*    files included;                                                      *)
(*  - DirectoryLoader(folder, glob="**/*.md").load() raises ValueError when *)
(*    folder is not a directory, else returns the visible *.md files        *)
(*    beneath it, at any depth;                                            *)
(*  - CharacterTextSplitter.split_documents yields, per document, the      *)
(*    chunks of its text, each carrying a copy of the document's metadata; *)
(*    how many chunks a text yields is a property of the text (nchunks);   *)
(*  - Chroma(persist_directory) gets or creates the collection of the      *)
(*    directory; delete_collection removes it; from_documents gets or      *)
(*    creates it and adds one record per chunk;                            *)
(*  - embedding and LLM calls are network calls that may fail.             *)
(***************************************************************************)
EXTENDS Naturals, Sequences, FiniteSets, TLC

(* ------------------------------ bounds --------------------------------- *)
\* exchanges one ConversationBufferMemory holds
MaxAsks == 2
\* collections ever created in vector_db
MaxCollections == 3

(* ---------------------------- constants -------------------------------- *)
NoChain == [set |-> FALSE, retriever |-> 0, memory |-> <<>>]
NoStore == 0
NoColl == [id |-> 0, records |-> <<>>]
NoRet == [op |-> "none", kind |-> "return", err |-> "none", val |-> "none"]

NotReadyText == "Please set up the conversation chain first by calling setup_conversation_chain()"
ErrorText == "Error: ..."

Questions == {"q1", "q2"}
Answers == {"a1"}
Dimensions == {2, 3}
\* threads of the Gradio server that run chat() for web requests
Threads == {"t1", "t2"}

(* ----------------------- knowledge-base trees -------------------------- *)
Node(p, k, n) == [path |-> p, kind |-> k, nchunks |-> n]

\* every node a knowledge base of the model can hold, in listing order
Universe ==
  << Node(<<"products">>, "dir", 0),
     Node(<<"products", "a.md">>, "file", 2),
     Node(<<"products", "notes.txt">>, "file", 1),
     Node(<<"products", "sub">>, "dir", 0),
     Node(<<"products", "sub", "b.md">>, "file", 1),
     Node(<<"employees">>, "dir", 0),
     Node(<<"employees", "a.md">>, "file", 1),
     Node(<<"README.md">>, "file", 1),
     Node(<<".hidden">>, "dir", 0),
     Node(<<".hidden", "a.md">>, "file", 1),
     Node(<<"empty">>, "dir", 0) >>

TopNames == {"products", "employees", "README.md", ".hidden", "empty"}

\* a knowledge base is the set of root entries it holds: the empty root, roots
\* of plain files only, of folders only, of both, with and without hidden or
\* document-free folders
KnowledgeBases ==
  { {}, {"README.md"}, {"products"}, {"products", "employees"},
    {"products", "README.md"}, {".hidden"}, {"employees", ".hidden"}, {"empty"} }

(* ------- create_knowledge_base_structure (setup_knowledge_base.py) ------ *)
\* lines 28-35: subdirs
ScaffoldSubdirs ==
  <<"company", "products", "employees", "contracts", "policies", "procedures">>

\* lines 41-258: examples, the file names written into each subdirectory
Examples ==
  [company |-> <<"about.md", "overview.md">>,
   products |-> <<"product1.md", "product2.md">>,
   employees |-> <<"employee1.md", "employee2.md">>,
   contracts |-> <<"contract1.md", "contract2.md">>,
   policies |-> <<"policy1.md", "policy2.md">>,
   procedures |-> <<"procedure1.md", "procedure2.md">>]

\* lines 37-38: os.makedirs(os.path.join(kb_path, subdir)) for each subdir
RECURSIVE MakeSubdirs(_)
MakeSubdirs(subdirs) ==
  IF subdirs = <<>> THEN <<>>
  ELSE <<Node(<<Head(subdirs)>>, "dir", 0)>> \o MakeSubdirs(Tail(subdirs))

\* lines 262-265: one file per entry of examples[subdir]; every example text
\* is shorter than one chunk
RECURSIVE WriteFiles(_, _)
WriteFiles(subdir, files) ==
  IF files = <<>> THEN <<>>
  ELSE <<Node(<<subdir, Head(files)>>, "file", 1)>>
       \o WriteFiles(subdir, Tail(files))

\* lines 261-265: for subdir, files in examples.items()
RECURSIVE WriteExamples(_)
WriteExamples(subdirs) ==
  IF subdirs = <<>> THEN <<>>
  ELSE WriteFiles(Head(subdirs), Examples[Head(subdirs)])
       \o WriteExamples(Tail(subdirs))

\* lines 312-313: README.md written at the root of the knowledge base
WriteReadme == <<Node(<<"README.md">>, "file", 2)>>

\* lines 16-328: the tree under kb_path when the function returns; whatever
\* was there before is removed first (lines 21-23)
create_knowledge_base_structure ==
  MakeSubdirs(ScaffoldSubdirs) \o WriteExamples(ScaffoldSubdirs) \o WriteReadme

\* the root entries of the generated knowledge base
GeneratedKb ==
  {create_knowledge_base_structure[i].path[1] :
     i \in 1..Len(create_knowledge_base_structure)}

HiddenName(n) == n \in {".hidden"}
MdName(n) ==
  n \in {"a.md", "b.md", "README.md"}
        \cup {Examples[d][i] : d \in DOMAIN Examples, i \in 1..2}

InKb(kbase, node) == node.path[1] \in kbase

\* the nodes of a knowledge base, in listing order
Tree(kbase) ==
  LET Test(node) == InKb(kbase, node)
  IN  IF kbase = GeneratedKb THEN create_knowledge_base_structure
      ELSE SelectSeq(Universe, Test)

IsDir(kbase, p) ==
  LET Test(node) == node.path = p /\ node.kind = "dir"
  IN  SelectSeq(Tree(kbase), Test) # <<>>

IsPrefix(s, t) == Len(s) <= Len(t) /\ SubSeq(t, 1, Len(s)) = s

RECURSIVE MapPath(_)
MapPath(nodes) ==
  IF nodes = <<>> THEN <<>> ELSE <<Head(nodes).path>> \o MapPath(Tail(nodes))

(* ------------------- load_documents (lines 60-90) ---------------------- *)
TopLevelVisible(kbase, node) ==
  /\ Len(node.path) = 1
  /\ InKb(kbase, node)
  /\ ~HiddenName(node.path[1])

\* glob.glob(f"{root}/*"): every entry of the root whose name has no leading
\* dot, directories and plain files alike
Glob(kbase) ==
  LET Test(node) == TopLevelVisible(kbase, node)
  IN  MapPath(SelectSeq(Tree(kbase), Test))

NoFoldersFound_never(folders) == FALSE

\* line 65: if not folders
NoFoldersFound(folders) == folders = <<>>

\* os.path.basename(folder)
basename(folder) == folder[Len(folder)]

Visible(path, from) == \A i \in from..Len(path) : ~HiddenName(path[i])

Matches(kbase, folder, node) ==
  /\ InKb(kbase, node)
  /\ node.kind = "file"
  /\ Len(node.path) > Len(folder)
  /\ IsPrefix(folder, node.path)
  /\ MdName(node.path[Len(node.path)])
  /\ Visible(node.path, Len(folder) + 1)

RECURSIVE AsDocs(_)
AsDocs(nodes) ==
  IF nodes = <<>> THEN <<>>
  ELSE << [source |-> Head(nodes).path, doc_type |-> "",
           nchunks |-> Head(nodes).nchunks] >> \o AsDocs(Tail(nodes))

\* DirectoryLoader(folder, glob="**/*.md", loader_cls=TextLoader).load() on a
\* directory: the visible *.md files beneath it, at any depth
DirectoryLoaderLoad(kbase, folder) ==
  LET Test(node) == Matches(kbase, folder, node)
  IN  AsDocs(SelectSeq(Tree(kbase), Test))

\* lines 68-70 with line 77: doc.metadata["doc_type"] = basename(folder)
add_metadata(doc, folder) == [doc EXCEPT !.doc_type = basename(folder)]

RECURSIVE TagAll(_, _)
TagAll(docs, folder) ==
  IF docs = <<>> THEN <<>>
  ELSE <<add_metadata(Head(docs), folder)>> \o TagAll(Tail(docs), folder)

\* lines 75-85: the loop over folders; DirectoryLoader raises ValueError
\* ("Expected directory, got file") on an entry that is a plain file
RECURSIVE LoadFolders(_, _)
LoadFolders(kbase, folders) ==
  IF folders = <<>> THEN [kind |-> "return", docs |-> <<>>]
  ELSE IF ~IsDir(kbase, Head(folders)) THEN [kind |-> "raise", docs |-> <<>>]
  ELSE LET rest == LoadFolders(kbase, Tail(folders))
       IN  IF rest.kind = "raise" THEN rest
           ELSE [kind |-> "return",
                 docs |-> TagAll(DirectoryLoaderLoad(kbase, Head(folders)),
                                 Head(folders)) \o rest.docs]

NotLoaded == [kind |-> "none", err |-> "none", folders |-> <<>>, docs |-> <<>>]

load_documents(kbase) ==
  LET folders == Glob(kbase)
  IN  IF NoFoldersFound(folders)
      THEN [kind |-> "raise", err |-> "ValueError", folders |-> folders,
            docs |-> <<>>]
      ELSE LET r == LoadFolders(kbase, folders)
           IN  [kind |-> r.kind,
                err |-> IF r.kind = "raise" THEN "ValueError" ELSE "none",
                folders |-> folders, docs |-> r.docs]

\* document lists a caller can hand to create_vectorstore
DocInputs ==
  {load_documents(k).docs : k \in {b \in KnowledgeBases : load_documents(b).kind = "return"}}

(* ------------------ create_vectorstore (lines 92-124) ------------------ *)
RECURSIVE ChunksOf(_, _)
ChunksOf(doc, i) ==
  IF i > doc.nchunks THEN <<>>
  ELSE << [source |-> doc.source, doc_type |-> doc.doc_type, idx |-> i] >>
       \o ChunksOf(doc, i + 1)

\* lines 97-98: CharacterTextSplitter(...).split_documents(documents)
RECURSIVE split_documents(_)
split_documents(documents) ==
  IF documents = <<>> THEN <<>>
  ELSE ChunksOf(Head(documents), 1) \o split_documents(Tail(documents))

\* Chroma(persist_directory=DB_NAME, ...): get or create the collection
GetOrCreate(db) ==
  IF db.coll.id # 0 THEN [db EXCEPT !.exists = TRUE]
  ELSE [exists |-> TRUE, made |-> db.made + 1,
        coll |-> [id |-> db.made + 1, records |-> <<>>]]

delete_collection(db) == [db EXCEPT !.coll = NoColl]

DeleteExisting_skip(db) == db

\* lines 111-112: if os.path.exists(DB_NAME): Chroma(...).delete_collection()
DeleteExisting(db) ==
  IF db.exists THEN delete_collection(GetOrCreate(db)) ELSE db

RECURSIVE AsRecords(_)
AsRecords(chunks) ==
  IF chunks = <<>> THEN <<>>
  ELSE << [document |-> <<Head(chunks).source, Head(chunks).idx>>,
           metadata |-> [doc_type |-> Head(chunks).doc_type,
                         source |-> Head(chunks).source]] >>
       \o AsRecords(Tail(chunks))

\* add_texts: one record per chunk, text and metadata taken from the chunk
AddRecords(db, chunks) ==
  [db EXCEPT !.coll.records = db.coll.records \o AsRecords(chunks)]

\* lines 92-124. embedOk: the embedding provider answers. Chroma rejects an
\* empty batch ("Expected IDs to be a non-empty list"), so from_documents
\* over no chunks raises after the collection has been opened.
create_vectorstore(db, vs, documents, embedOk) ==
  LET chunks == split_documents(documents)
      cleared == DeleteExisting(db)
      opened == GetOrCreate(cleared)
  IN  IF chunks = <<>>
      THEN [db |-> opened, vectorstore |-> vs, kind |-> "raise",
            err |-> "ChromaError", chunks |-> chunks]
      ELSE IF ~embedOk
      THEN [db |-> opened, vectorstore |-> vs, kind |-> "raise",
            err |-> "ProviderError", chunks |-> chunks]
      ELSE [db |-> AddRecords(opened, chunks), vectorstore |-> opened.coll.id,
            kind |-> "return", err |-> "none", chunks |-> chunks]

(* ------------- visualize_vectors (lines 126-181) ----------------------- *)
\* the Chroma object vs still names the collection of the directory
Live(db, vs) == vs # NoStore /\ db.coll.id = vs

\* may fail: reading a deleted collection and t-SNE over no vectors always do;
\* t-SNE over few vectors and fig.show() do on some installations
visualize_vectors(db, vs, rendered) ==
  IF vs = NoStore
  THEN [op |-> "visualize_vectors", kind |-> "return", err |-> "none", val |-> "early"]
  ELSE IF ~Live(db, vs)
  THEN [op |-> "visualize_vectors", kind |-> "raise", err |-> "ChromaError", val |-> "none"]
  ELSE IF db.coll.records = <<>> \/ ~rendered
  THEN [op |-> "visualize_vectors", kind |-> "raise", err |-> "ValueError", val |-> "none"]
  ELSE [op |-> "visualize_vectors", kind |-> "return", err |-> "none", val |-> "shown"]

(* ---------- setup_conversation_chain (lines 183-207) ------------------- *)
setup_conversation_chain(vs, chain) ==
  IF vs = NoStore THEN chain
  ELSE [set |-> TRUE, retriever |-> vs, memory |-> <<>>]

(* ----------------- ask_question (lines 209-218) ------------------------ *)
SaveContext_replace(memory, q, a) == << <<q, a>> >>

\* ConversationBufferMemory.save_context: append the exchange
SaveContext(memory, q, a) == Append(memory, <<q, a>>)

\* conversation_chain.invoke({"question": q}): retrieve from the retriever's
\* collection, call the LLM, save the exchange in memory
invoke(db, chain, q, providerOk, a) ==
  IF ~Live(db, chain.retriever)
  THEN [kind |-> "raise", err |-> "ChromaError", val |-> "none", chain |-> chain]
  ELSE IF ~providerOk
  THEN [kind |-> "raise", err |-> "ProviderError", val |-> "none", chain |-> chain]
  ELSE [kind |-> "return", err |-> "none", val |-> a,
        chain |-> [chain EXCEPT !.memory = SaveContext(chain.memory, q, a)]]

ask_question(db, chain, q, providerOk, a) ==
  IF ~chain.set
  THEN [kind |-> "return", err |-> "none", val |-> NotReadyText, chain |-> chain]
  ELSE LET r == invoke(db, chain, q, providerOk, a)
       IN  IF r.kind = "raise"
           THEN [kind |-> "return", err |-> r.err, val |-> ErrorText, chain |-> chain]
           ELSE r

(* ---------------- run_full_setup (lines 234-249) ----------------------- *)
run_full_setup(kbase, db, vs, chain, embedOk) ==
  LET l == load_documents(kbase)
      c == create_vectorstore(db, vs, l.docs, embedOk)
  IN  IF l.kind = "raise"
      THEN [db |-> db, vectorstore |-> vs, chain |-> chain, err |-> l.err,
            load |-> l, created |-> FALSE, ok |-> FALSE, chunks |-> <<>>]
      ELSE IF c.kind = "raise"
      THEN [db |-> c.db, vectorstore |-> vs, chain |-> chain, err |-> c.err,
            load |-> l, created |-> TRUE, ok |-> FALSE, chunks |-> c.chunks]
      ELSE [db |-> c.db, vectorstore |-> c.vectorstore,
            chain |-> setup_conversation_chain(c.vectorstore, chain),
            err |-> "none", load |-> l, created |-> TRUE, ok |-> TRUE,
            chunks |-> c.chunks]

(* ------------------------------ state ---------------------------------- *)
VARIABLES
  kb,                  \* the tree at self.knowledge_base_path
  db,                  \* vector_db on disk: exists, collections made, collection
  vectorstore,         \* self.vectorstore: NoStore or the collection it names
  conversation_chain,  \* self.conversation_chain: retriever and memory
  loadres,             \* outcome of the last load_documents of this process
  lastCreate,          \* chunks and outcome of the most recent create_vectorstore
  ret,                 \* what the last call handed to its caller
  answered,            \* this process has saved an exchange in a memory
  mode,                \* "api": calls from a script; "cli": main()
  args,                \* main()'s --visualize and --chat
  mainpc,              \* position of main()
  serving,             \* interface.launch() is running
  req                  \* per server thread: the chat() call it is in

vars == <<kb, db, vectorstore, conversation_chain, loadres, lastCreate, ret,
          answered, mode, args, mainpc, serving, req>>

worker == <<vectorstore, conversation_chain>>

NoArgs == [visualize |-> FALSE, chat |-> FALSE]
ArgSets == [visualize : BOOLEAN, chat : BOOLEAN]
IdleReq == [pc |-> "idle", q |-> "none"]

History == conversation_chain.memory

InFlight == {t \in Threads : req[t].pc = "invoked"}

\* lines 38-58 in a fresh process: __init__ of the instance; main() at its start
StartProcess ==
  /\ mode' \in {"api", "cli"}
  /\ args' \in IF mode' = "cli" THEN ArgSets ELSE {NoArgs}
  /\ mainpc' = IF mode' = "cli" THEN "setup" ELSE "api"
  /\ vectorstore' = NoStore
  /\ conversation_chain' = NoChain
  /\ loadres' = NotLoaded
  /\ ret' = NoRet
  /\ answered' = FALSE
  /\ serving' = FALSE
  /\ req' = [t \in Threads |-> IdleReq]

Init ==
  /\ kb \in KnowledgeBases
  /\ mode \in {"api", "cli"}
  /\ args \in IF mode = "cli" THEN ArgSets ELSE {NoArgs}
  /\ mainpc = IF mode = "cli" THEN "setup" ELSE "api"
  /\ db = [exists |-> FALSE, made |-> 0, coll |-> NoColl]
  /\ vectorstore = NoStore
  /\ conversation_chain = NoChain
  /\ loadres = NotLoaded
  /\ lastCreate = [ok |-> FALSE, chunks |-> <<>>]
  /\ ret = NoRet
  /\ answered = FALSE
  /\ serving = FALSE
  /\ req = [t \in Threads |-> IdleReq]

\* the process ends and a later one starts over the same knowledge base and
\* the same vector_db
NewProcess ==
  /\ StartProcess
  /\ UNCHANGED <<kb, db, lastCreate>>

\* python setup_knowledge_base.py --name ... has generated the knowledge base,
\* and a process of the worker starts on it as the script's "Next steps" say
\* (setup_knowledge_base.py lines 323-326)
SetupKnowledgeBase ==
  /\ kb' = GeneratedKb
  /\ StartProcess
  /\ UNCHANGED <<db, lastCreate>>

Api == mode = "api" /\ ~serving
At(pc) == mode = "cli" /\ mainpc = pc
Goto(pc) == mainpc' = IF mode = "cli" THEN pc ELSE mainpc

Result(op, kind, err, val) == [op |-> op, kind |-> kind, err |-> err, val |-> val]

(* ----------------------------- actions --------------------------------- *)
\* kw.load_documents() called from a script
LoadDocuments ==
  /\ Api
  /\ LET l == load_documents(kb)
     IN  /\ loadres' = l
         /\ ret' = Result("load_documents", l.kind, l.err, "none")
  /\ UNCHANGED <<kb, db, worker, lastCreate, answered, mode, args, mainpc, serving, req>>

\* kw.create_vectorstore(documents) called from a script
CreateVectorstore(documents, embedOk) ==
  /\ Api
  /\ db.made < MaxCollections
  /\ LET c == create_vectorstore(db, vectorstore, documents, embedOk)
     IN  /\ db' = c.db
         /\ vectorstore' = c.vectorstore
         /\ lastCreate' = [ok |-> c.kind = "return", chunks |-> c.chunks]
         /\ ret' = Result("create_vectorstore", c.kind, c.err, "none")
  /\ UNCHANGED <<kb, conversation_chain, loadres, answered, mode, args, mainpc, serving, req>>

\* kw.setup_conversation_chain() called from a script
SetupConversationChain ==
  /\ Api
  /\ conversation_chain' = setup_conversation_chain(vectorstore, conversation_chain)
  /\ ret' = Result("setup_conversation_chain", "return", "none", "none")
  /\ UNCHANGED <<kb, db, vectorstore, loadres, lastCreate, answered, mode, args, mainpc,
                 serving, req>>

\* kw.run_full_setup(): from a script, or line 275 of main()
RunFullSetup(embedOk) ==
  /\ Api \/ At("setup")
  /\ load_documents(kb).kind = "raise" \/ db.made < MaxCollections
  /\ LET r == run_full_setup(kb, db, vectorstore, conversation_chain, embedOk)
     IN  /\ db' = r.db
         /\ vectorstore' = r.vectorstore
         /\ conversation_chain' = r.chain
         /\ loadres' = r.load
         /\ lastCreate' = IF r.created THEN [ok |-> r.ok, chunks |-> r.chunks]
                          ELSE lastCreate
         /\ ret' = Result("run_full_setup", "return", r.err, "none")
  /\ Goto(IF args.visualize THEN "viz2" ELSE "dispatch")
  /\ UNCHANGED <<kb, answered, mode, args, serving, req>>

\* kw.visualize_vectors(dimensions): from a script, or lines 278-280 of main(),
\* where an exception ends main() in the handler of line 302
VisualizeVectors(dimensions, rendered) ==
  /\ \/ Api
     \/ At("viz2") /\ dimensions = 2
     \/ At("viz3") /\ dimensions = 3
  /\ LET r == visualize_vectors(db, vectorstore, rendered)
     IN  /\ ret' = r
         /\ Goto(IF r.kind = "raise" THEN "crashed"
                 ELSE IF dimensions = 2 THEN "viz3" ELSE "dispatch")
  /\ UNCHANGED <<kb, db, worker, loadres, lastCreate, answered, mode, args, serving, req>>

\* lines 283-289 of main(): the branch on --chat
MainDispatch ==
  /\ At("dispatch")
  /\ ~args.chat
  /\ mainpc' = "loop"
  /\ UNCHANGED <<kb, db, worker, loadres, lastCreate, ret, answered, mode, args, serving, req>>

\* kw.ask_question(question): from a script, or line 297 of main()
AskQuestion(question, providerOk, a) ==
  /\ Api \/ At("loop")
  /\ Len(History) < MaxAsks
  /\ LET r == ask_question(db, conversation_chain, question, providerOk, a)
     IN  /\ conversation_chain' = r.chain
         /\ answered' = (answered \/ r.chain # conversation_chain)
         /\ ret' = Result("ask_question", r.kind, r.err, r.val)
  /\ UNCHANGED <<kb, db, vectorstore, loadres, lastCreate, mode, args, mainpc,
                 serving, req>>

\* lines 293-294 of main(): quit
MainQuit ==
  /\ At("loop")
  /\ mainpc' = "done"
  /\ UNCHANGED <<kb, db, worker, loadres, lastCreate, ret, answered, mode, args, serving, req>>

\* kw.chat_interface(): from a script, or line 284 of main(); launch() blocks
\* the calling thread while the server runs
ChatInterface ==
  /\ Api \/ (At("dispatch") /\ args.chat)
  /\ IF ~conversation_chain.set
     THEN /\ ret' = Result("chat_interface", "return", "none", "not set up")
          /\ Goto("done")
          /\ UNCHANGED serving
     ELSE /\ serving' = TRUE
          /\ ret' = Result("chat_interface", "launched", "none", "none")
          /\ Goto("serving")
  /\ UNCHANGED <<kb, db, worker, loadres, lastCreate, answered, mode, args, req>>

\* a web request enters chat(question, history), line 227, on a server thread
ChatBegin(t, question) ==
  /\ serving
  /\ req[t].pc = "idle"
  /\ Len(History) + Cardinality(InFlight) < MaxAsks
  /\ req' = [req EXCEPT ![t] = [pc |-> "invoked", q |-> question]]
  /\ UNCHANGED <<kb, db, worker, loadres, lastCreate, ret, answered, mode, args, mainpc,
                 serving>>

\* the invoke of line 227 completes and chat() returns, or raises into Gradio
ChatEnd(t, providerOk, a) ==
  /\ serving
  /\ req[t].pc = "invoked"
  /\ LET r == invoke(db, conversation_chain, req[t].q, providerOk, a)
     IN  /\ conversation_chain' = r.chain
         /\ answered' = (answered \/ r.kind = "return")
         /\ ret' = Result("chat", r.kind, r.err, r.val)
  /\ req' = [req EXCEPT ![t] = IdleReq]
  /\ UNCHANGED <<kb, db, vectorstore, loadres, lastCreate, mode, args, mainpc, serving>>

\* the server is shut down and launch() returns to its caller
CloseInterface ==
  /\ serving
  /\ InFlight = {}
  /\ serving' = FALSE
  /\ ret' = Result("chat_interface", "return", "none", "closed")
  /\ Goto("done")
  /\ UNCHANGED <<kb, db, worker, loadres, lastCreate, answered, mode, args, req>>

Next ==
  \/ NewProcess
  \/ SetupKnowledgeBase
  \/ LoadDocuments
  \/ \E d \in DocInputs, ok \in BOOLEAN : CreateVectorstore(d, ok)
  \/ SetupConversationChain
  \/ \E ok \in BOOLEAN : RunFullSetup(ok)
  \/ \E d \in Dimensions, r \in BOOLEAN : VisualizeVectors(d, r)
  \/ MainDispatch
  \/ \E q \in Questions, o \in BOOLEAN, a \in Answers : AskQuestion(q, o, a)
  \/ MainQuit
  \/ ChatInterface
  \/ \E t \in Threads, q \in Questions : ChatBegin(t, q)
  \/ \E t \in Threads, o \in BOOLEAN, a \in Answers : ChatEnd(t, o, a)
  \/ CloseInterface

Spec == Init /\ [][Next]_vars

(* ============================== claims ================================= *)
StoreRecords == db.coll.records

\* the immediate subdirectories of the root: what the layout calls categories
Subdirs(kbase) == {n \in kbase : IsDir(kbase, <<n>>)}

NoSubdirectories == Subdirs(kb) = {}

\* Ready over a non-empty store: the chain reads the store the instance holds
ReadyNonEmpty ==
  /\ conversation_chain.set
  /\ conversation_chain.retriever = vectorstore
  /\ Live(db, vectorstore)
  /\ StoreRecords # <<>>

\* C1: ask_question on an instance whose conversation chain is not set up
\* fails with an error signal; it never returns an ordinary string.
C1_AskUninitializedRaises ==
  (ret.op = "ask_question" /\ ~conversation_chain.set) => ret.kind = "raise"

\* C2: every failure inside run_full_setup or ask_question (loading, store
\* creation, chain setup, embedding or LLM call) reaches the caller as an
\* error signal, never as a normal return.
C2_NoErrorSwallowed ==
  (ret.op \in {"run_full_setup", "ask_question"} /\ ret.err # "none")
    => ret.kind = "raise"

\* C3: over a root with no subdirectories load_documents fails with the
\* configuration error (ValueError), and run_full_setup fails on it before
\* create_vectorstore: vector_db and self.vectorstore are left as they were.
C3_NoSubdirsFailsBeforeStore ==
  [][ NoSubdirectories =>
        /\ LoadDocuments => (ret'.kind = "raise" /\ ret'.err = "ValueError")
        /\ \A e \in BOOLEAN :
             RunFullSetup(e) =>
               /\ loadres'.kind = "raise"
               /\ ret'.err = "ValueError"
               /\ UNCHANGED <<db, vectorstore, lastCreate>> ]_vars

C3_Witness ==
  /\ NoSubdirectories
  /\ ret.op = "run_full_setup"
  /\ StoreRecords # <<>>
  /\ vectorstore = NoStore

\* C4: once a create_vectorstore call has returned, the store holds exactly
\* one record per chunk of that most recent call, in which the text and the
\* doc_type are the chunk's, and no record of an earlier call.
C4_StoreHoldsLastChunks ==
  lastCreate.ok =>
    /\ Len(StoreRecords) = Len(lastCreate.chunks)
    /\ \A i \in 1..Len(StoreRecords) :
         /\ StoreRecords[i].document
              = <<lastCreate.chunks[i].source, lastCreate.chunks[i].idx>>
         /\ StoreRecords[i].metadata.doc_type = lastCreate.chunks[i].doc_type

C4_Witness ==
  /\ lastCreate.ok
  /\ db.made >= 2
  /\ Len(StoreRecords) >= 2
  /\ \E i, j \in 1..Len(StoreRecords) :
       StoreRecords[i].metadata.doc_type # StoreRecords[j].metadata.doc_type

\* C5: every ask_question that returns a value in the Ready state over a
\* non-empty store returns non-empty text and has appended exactly the one
\* entry (question, returned text) to the history.
C5_AskAppendsOneEntry ==
  [][ \A q \in Questions, o \in BOOLEAN, a \in Answers :
        (ReadyNonEmpty /\ AskQuestion(q, o, a) /\ ret'.kind = "return")
          => /\ ret'.val # ""
             /\ History' = Append(History, <<q, ret'.val>>) ]_vars

\* a step in which a new process starts, and with it a new instance
NewInstance == NewProcess \/ SetupKnowledgeBase

\* C6 as stated: within one instance the history only ever grows by
\* appending, whatever operation runs.
C6_HistoryOnlyAppends ==
  [][ NewInstance \/ IsPrefix(History, History') ]_vars

Rebinds ==
  /\ SetupConversationChain \/ \E e \in BOOLEAN : RunFullSetup(e)
  /\ vectorstore' # NoStore

\* C6 as amended: the history of an instance is empty at its start and
\* changes only by appending, except that a setup_conversation_chain call
\* that finds a vector store bound (directly or inside run_full_setup) starts
\* it again from empty.
C6_HistoryAppendsOrRestarts ==
  [][ /\ NewInstance => History' = <<>>
      /\ \/ NewInstance
         \/ IsPrefix(History, History')
         \/ Rebinds /\ History' = <<>> ]_vars

C6_Witness ==
  /\ answered
  /\ conversation_chain.set
  /\ History = <<>>
  /\ ret.op \in {"setup_conversation_chain", "run_full_setup"}

\* C7: whenever the conversation chain is set, a vector store is bound and it
\* holds at least one record.
C7_ReadyImpliesPopulatedStore ==
  conversation_chain.set =>
    /\ vectorstore # NoStore
    /\ Live(db, vectorstore)
    /\ StoreRecords # <<>>

\* C8: load_documents enumerates exactly the immediate subdirectories of the
\* root, and every document it returns carries the name of the immediate
\* subdirectory it lies beneath, one of the subdirectory names.
C8_LoaderEnumeratesSubdirs ==
  loadres.kind # "none" =>
    /\ {basename(loadres.folders[i]) : i \in 1..Len(loadres.folders)} = Subdirs(kb)
    /\ \A i \in 1..Len(loadres.docs) :
         /\ loadres.docs[i].doc_type = loadres.docs[i].source[1]
         /\ loadres.docs[i].doc_type \in Subdirs(kb)

\* C9: a visualize_vectors call, however it ends, leaves the stored vectors,
\* the bound store, the chain and the history as they were, and main() goes
\* on to the point where questions are asked.
C9_VisualizerNeverStopsAnswering ==
  [][ \A d \in Dimensions, r \in BOOLEAN :
        VisualizeVectors(d, r)
          => /\ UNCHANGED <<db, vectorstore, conversation_chain>>
             /\ mainpc' # "crashed" ]_vars

\* C10: no two invocations of the conversation chain of one instance are in
\* progress at once.
C10_OneInvocationAtATime == Cardinality(InFlight) <= 1

\* C11: load_documents on the root generated by
\* create_knowledge_base_structure succeeds and returns the twelve example
\* documents, tagged with exactly the six generated category names.
C11_GeneratedKbLoads ==
  (kb = GeneratedKb /\ loadres.kind # "none") =>
    /\ loadres.kind = "return"
    /\ Len(loadres.docs) = 12
    /\ {loadres.docs[i].doc_type : i \in 1..Len(loadres.docs)}
         = {ScaffoldSubdirs[i] : i \in 1..Len(ScaffoldSubdirs)}

\* C12: whenever the conversation chain is set, its retriever reads the
\* vector store the instance currently holds, and the collection of that
\* store has not been deleted by a later create_vectorstore call.
C12_RetrieverReadsBoundStore ==
  conversation_chain.set =>
    /\ conversation_chain.retriever = vectorstore
    /\ Live(db, conversation_chain.retriever)

====
